---- MODULE Spec2Model ----
(***************************************************************************)
(* A model of backend/crawler.py: the query generation                     *)
(* (get_search_queries), the validity check (is_valid_video) and the       *)
(* discovery pipeline of __main__ (seed, collection, filter, emit).        *)
(*                                                                         *)
(* Strings are sequences of Unicode code points, so that lower(), the      *)
(* substring test and the [가-힣] range test are computed as Python        *)
(* computes them.  A video is a function from the keys it has to their     *)
(* values (a dict); a key the dict lacks is not in its DOMAIN.             *)
(***************************************************************************)
EXTENDS Integers, Sequences, FiniteSets, TLC

VARIABLES
    \* ---- the validator on one record (SpecValid)
    video,                  \* the record handed to is_valid_video
    verdict,                \* <<>> before the call, <<b>> once it returned b
    \* ---- get_search_queries on one vocabulary store (SpecQuery)
    vocab,                  \* what db_session.query(DishType) does
    queries_out,            \* <<>> before the call, <<set>> once it returned
    \* ---- the pipeline of __main__ (Spec, SpecTwoRuns)
    recipes_db,             \* what db_session.query(Recipe.youtube_id) does
    dish_db,                \* what db_session.query(DishType) does
    youtube,                \* what extract_info does for each query
    pc,                     \* the position in __main__
    seed_ids,               \* crawled_ids as get_crawled_video_ids returned it
    crawled_ids,
    search_queries,
    visited,                \* the queries the outer loop has iterated
    fetched,                \* every entry extract_info has returned, in order
    videos,                 \* what is left of the inner loop's list
    all_videos_to_process,
    filter_pos,             \* records the list comprehension has examined
    filtered_videos,
    out_file,               \* filtered_videos.json
    emit_attempts,          \* times the output was opened for writing
    run,                    \* 1, 2, ...: which invocation of the script
    first_run               \* what the previous invocation ended with

validVars == <<video, verdict>>
queryVars == <<vocab, queries_out>>
mainVars == <<recipes_db, dish_db, youtube, pc, seed_ids, crawled_ids,
              search_queries, visited, fetched, videos, all_videos_to_process,
              filter_pos, filtered_videos, out_file, emit_attempts, run,
              first_run>>
vars == <<validVars, queryVars, mainVars>>

-----------------------------------------------------------------------------
(* Strings *)

Str_ad == <<44305, 44256>>                      \* "광고"
Str_sponsored == <<54801, 52268>>               \* "협찬"
Str_space == <<32>>                             \* " "
Str_cooking == <<99, 111, 111, 107, 105, 110, 103>>             \* "cooking"
Str_howto == <<104, 111, 119, 45, 116, 111, 32, 38, 32, 115, 116, 121, 108, 101>>
                                                \* "how-to & style"
Str_food == <<102, 111, 111, 100, 32, 38, 32, 100, 114, 105, 110, 107>>
                                                \* "food & drink"

\* line 21
BLACKLIST_KEYWORDS == <<Str_ad, Str_sponsored>>
\* line 106
CATEGORY_ALLOWLIST == {Str_cooking, Str_howto, Str_food}
\* line 85
MinDuration == 60
\* line 91
MinViewCount == 5000
\* line 114: the range [가-힣]
HangulFirst == 44032
HangulLast == 55203

Range(s) == {s[i] : i \in 1..Len(s)}

\* dict.get(key, default)
Get(d, key, default) == IF key \in DOMAIN d THEN d[key] ELSE default

\* dict.get(key) is None
IsNone(d, key) == key \notin DOMAIN d

\* str.lower(), on the characters the model uses: A-Z map to a-z
LowerChar(c) == IF c >= 65 /\ c <= 90 THEN c + 32 ELSE c
Lower(s) == [i \in 1..Len(s) |-> LowerChar(s[i])]

\* keyword in text: the first position from i where keyword starts, scanning
RECURSIVE FindFrom(_, _, _)
FindFrom(keyword, text, i) ==
    IF i + Len(keyword) - 1 > Len(text) THEN 0
    ELSE IF SubSeq(text, i, i + Len(keyword) - 1) = keyword THEN i
    ELSE FindFrom(keyword, text, i + 1)

Contains(keyword, text) == FindFrom(keyword, text, 1) # 0

\* title + " " + description
CombinedText(title, description) == title \o Str_space \o description

\* re.search('[가-힣]', s)
SearchHangul(s) == \E i \in 1..Len(s) : s[i] >= HangulFirst /\ s[i] <= HangulLast

\* rule 1, lines 84-87
DurationTooShortStrict(v) == IsNone(v, "duration") \/ v["duration"] <= MinDuration
DurationTooShort(v) == IsNone(v, "duration") \/ v["duration"] < MinDuration

\* rule 2, lines 90-93
TooFewViews(v) == IsNone(v, "view_count") \/ v["view_count"] < MinViewCount

\* rule 3, lines 96-102: the loop over BLACKLIST_KEYWORDS
RECURSIVE BlacklistedFrom(_, _)
BlacklistedFrom(text, k) ==
    IF k > Len(BLACKLIST_KEYWORDS) THEN FALSE
    ELSE IF Contains(BLACKLIST_KEYWORDS[k], text) THEN TRUE
    ELSE BlacklistedFrom(text, k + 1)

Blacklisted(v) ==
    BlacklistedFrom(CombinedText(Get(v, "title", <<>>), Get(v, "description", <<>>)), 1)

\* rule 4, lines 105-108
CookingCategory(v) ==
    LET category == Get(v, "categories", <<>>)
    IN  \E i \in 1..Len(category) : Lower(category[i]) \in CATEGORY_ALLOWLIST

\* rule 5, lines 112-116
KoreanChannel(v) == SearchHangul(Get(v, "channel", <<>>))

is_valid_video(v) ==
    IF DurationTooShort(v) THEN FALSE
    ELSE IF TooFewViews(v) THEN FALSE
    ELSE IF Blacklisted(v) THEN FALSE
    ELSE IF ~CookingCategory(v) THEN FALSE
    ELSE IF ~KoreanChannel(v) THEN FALSE
    ELSE TRUE

-----------------------------------------------------------------------------
(* Records: a field is given as <<>> (the key is missing) or <<value>> *)

Field(key, opt) == IF opt = <<>> THEN <<>> ELSE (key :> opt[1])

MkVideo(id, duration, view_count, title, description, categories, channel) ==
    Field("id", id) @@ Field("duration", duration)
    @@ Field("view_count", view_count) @@ Field("title", title)
    @@ Field("description", description) @@ Field("categories", categories)
    @@ Field("channel", channel)

Str_kimchi == <<44608, 52824>>                  \* "김치"
Str_kimchi_a == <<44608, 52824, 44305>>         \* "김치광"
Str_d == <<44256, 44592>>                       \* "고기"
Str_Cooking == <<67, 111, 111, 107, 105, 110, 103>>             \* "Cooking"
Str_MUSIC == <<77, 85, 83, 73, 67>>             \* "MUSIC"
Str_FoodDrink == <<70, 111, 111, 100, 32, 38, 32, 68, 114, 105, 110, 107>>
                                                \* "Food & Drink"
Str_Paik == <<80, 97, 105, 107>>                \* "Paik"
Str_PaikKo == <<80, 97, 105, 107, 55203>>       \* "Paik힣"
Str_below == <<44031>>                          \* the character before 가
Str_above == <<55204>>                          \* the character after 힣
Str_baek == <<48177, 51333, 50896>>             \* "백종원"

DurationInputs == {<<>>, <<0>>, <<59>>, <<60>>}
ViewCountInputs == {<<>>, <<100>>, <<4999>>, <<5000>>}
TitleInputs == {<<>>, <<Str_kimchi>>, <<Str_kimchi_a>>, <<Str_sponsored \o Str_kimchi>>}
DescriptionInputs == {<<>>, <<Str_d>>, <<Str_kimchi \o Str_ad>>}
CategoriesInputs == {<<>>, << <<>> >>, << <<Str_Cooking>> >>, << <<Str_MUSIC>> >>,
                     << <<Str_MUSIC, Str_FoodDrink>> >>}
ChannelInputs == {<<>>, <<Str_Paik>>, <<Str_PaikKo>>, <<Str_below>>, <<Str_above>>,
                  <<Str_baek>>}

VideoInputs ==
    {MkVideo(<<>>, d, n, t, s, c, ch) :
        d \in DurationInputs, n \in ViewCountInputs, t \in TitleInputs,
        s \in DescriptionInputs, c \in CategoriesInputs, ch \in ChannelInputs}

-----------------------------------------------------------------------------
(* get_search_queries, lines 32-52 *)

Str_hansik == <<54620, 49885>>                  \* "한식"
Str_jungsik == <<51473, 49885>>                 \* "중식"
Str_yangsik == <<50577, 49885>>                 \* "양식"
Str_bunsik == <<48516, 49885>>                  \* "분식"
Str_recipe == <<32, 47112, 49884, 54588>>       \* " 레시피"
Str_making == <<32, 47564, 46308, 44592>>       \* " 만들기"
Str_simple == <<44036, 45800, 54620, 32, 50836, 47532>>   \* "간단한 요리"
Str_single == <<51088, 52712, 49373, 32, 50836, 47532>>   \* "자취생 요리"

\* line 41
FALLBACK_QUERIES == <<Str_hansik, Str_jungsik, Str_yangsik>>

\* A store answers [ok |-> TRUE, rows |-> all its rows], or raises:
\* [ok |-> FALSE, rows |-> the rows the caller had read before the exception].

\* lines 34-41: base_queries after the try statement
BaseQueriesFallbackWhenEmpty(db) ==
    IF db.ok /\ db.rows # <<>> THEN db.rows ELSE FALLBACK_QUERIES
BaseQueries(db) ==
    IF db.ok THEN db.rows ELSE FALLBACK_QUERIES

\* lines 43-46: the loop over base_queries, from index k, adding to the set
RECURSIVE ExtendFrom(_, _, _)
ExtendFrom(base_queries, k, extended_queries) ==
    IF k > Len(base_queries) THEN extended_queries
    ELSE ExtendFrom(base_queries, k + 1,
                    extended_queries \cup {base_queries[k] \o Str_recipe,
                                           base_queries[k] \o Str_making})

\* lines 43-52
ExtendedQueriesFirstSuffixOnly(base_queries) ==
    {base_queries[k] \o Str_recipe : k \in 1..Len(base_queries)}
        \cup {Str_simple, Str_single}
ExtendedQueries(base_queries) ==
    ExtendFrom(base_queries, 1, {}) \cup {Str_simple, Str_single}

get_search_queries(db) == ExtendedQueries(BaseQueries(db))

MaxVocab == 3
VocabTerms == {Str_hansik, Str_jungsik, Str_yangsik, Str_bunsik}
SeqsUpTo(S, n) == UNION {[1..k -> S] : k \in 0..n}
VocabInputs == {[ok |-> b, rows |-> r] : b \in BOOLEAN, r \in SeqsUpTo(VocabTerms, MaxVocab)}

-----------------------------------------------------------------------------
(* The three specifications share the variables; each leaves the others'   *)
(* at rest.                                                                *)

NoFile == [exists |-> FALSE, content |-> <<>>]
NoRun == [db |-> {}, seen |-> {}, batch |-> <<>>, file |-> NoFile]

MainIdle(at) ==
    /\ recipes_db = [ok |-> TRUE, rows |-> {}]
    /\ dish_db = [ok |-> TRUE, rows |-> <<>>]
    /\ youtube = <<>>
    /\ pc = at
    /\ seed_ids = {}
    /\ crawled_ids = {}
    /\ search_queries = {}
    /\ visited = {}
    /\ fetched = <<>>
    /\ videos = <<>>
    /\ all_videos_to_process = <<>>
    /\ filter_pos = 0
    /\ filtered_videos = <<>>
    /\ out_file = NoFile
    /\ emit_attempts = 0
    /\ run = 1
    /\ first_run = NoRun

ValidIdle == video = <<>> /\ verdict = <<>>
QueryIdle == vocab = [ok |-> TRUE, rows |-> <<>>] /\ queries_out = <<>>

(* The validator applied to one record *)

InitValid ==
    /\ video \in VideoInputs
    /\ verdict = <<>>
    /\ QueryIdle
    /\ MainIdle("is_valid_video")

Validate ==
    /\ pc = "is_valid_video"
    /\ verdict = <<>>
    /\ verdict' = <<is_valid_video(video)>>
    /\ UNCHANGED <<video, queryVars, mainVars>>

SpecValid == InitValid /\ [][Validate]_vars

(* get_search_queries applied to one vocabulary store *)

InitQuery ==
    /\ vocab \in VocabInputs
    /\ queries_out = <<>>
    /\ ValidIdle
    /\ MainIdle("get_search_queries")

GenerateQueries ==
    /\ pc = "get_search_queries"
    /\ queries_out = <<>>
    /\ queries_out' = <<get_search_queries(vocab)>>
    /\ UNCHANGED <<vocab, validVars, mainVars>>

SpecQuery == InitQuery /\ [][GenerateQueries]_vars

-----------------------------------------------------------------------------
(* The pipeline of __main__, lines 120-152 *)

\* lines 23-30
get_crawled_video_ids(db) == IF db.ok THEN db.rows ELSE {}

\* line 135: the cap handed to get_video_info
max_videos == 20

\* lines 72-79: extract_info returns the entries, or raises and the except
\* clause returns the empty list.  The result is [raised, value]: an exception
\* that left the function, or the list returned.
get_video_info_uncaught(response) ==
    IF response.ok THEN [raised |-> FALSE, value |-> response.entries]
    ELSE [raised |-> TRUE, value |-> <<>>]
get_video_info(response) ==
    IF response.ok THEN [raised |-> FALSE, value |-> response.entries]
    ELSE [raised |-> FALSE, value |-> <<>>]

\* line 138: video.get('id').  None and '' are both false at line 140, and
\* neither is an identifier: the model writes both as "".
VideoId(v) == Get(v, "id", "")

\* line 140: video_id and video_id not in crawled_ids
IsNewNoMembership(video_id, ids) == video_id # ""
IsNew(video_id, ids) == video_id # "" /\ video_id \notin ids

\* lines 138-142: one iteration of the inner loop, on crawled_ids and
\* all_videos_to_process
AfterCandidateUnmarked(v, ids, collected) ==
    IF IsNew(VideoId(v), ids) THEN [ids |-> ids, collected |-> Append(collected, v)]
    ELSE [ids |-> ids, collected |-> collected]
AfterCandidateValidOnly(v, ids, collected) ==
    IF IsNew(VideoId(v), ids) /\ is_valid_video(v)
    THEN [ids |-> ids \cup {VideoId(v)}, collected |-> Append(collected, v)]
    ELSE [ids |-> ids, collected |-> collected]
AfterCandidate(v, ids, collected) ==
    IF IsNew(VideoId(v), ids)
    THEN [ids |-> ids \cup {VideoId(v)}, collected |-> Append(collected, v)]
    ELSE [ids |-> ids, collected |-> collected]

\* line 133: the outer loop has no query left
CollectionDoneAfterFirst(queries, done) == done # {} \/ queries = {}
CollectionDone(queries, done) == queries \subseteq done

\* line 145: one element of the list comprehension
AfterFilter(v, kept) == IF is_valid_video(v) THEN Append(kept, v) ELSE kept

\* lines 148-149: the document as the pieces json.dump writes in turn: the
\* brackets and, taken as one piece each, the records
JsonOpen == [json |-> "["]
JsonClose == [json |-> "]"]
JsonEmpty == [json |-> "[]"]
Document(batch) ==
    IF batch = <<>> THEN <<JsonEmpty>> ELSE <<JsonOpen>> \o batch \o <<JsonClose>>

(* The inputs of a run *)

VideoIds == {"v1", "v2"}
Str_jjigae == <<52236, 44060>>                  \* "찌개"

\* passes the five rules
VidA == MkVideo(<<"v1">>, <<60>>, <<5000>>, <<Str_kimchi>>, <<Str_d>>,
                << <<Str_Cooking>> >>, <<Str_baek>>)
\* the same video with a view count of 100
VidB == MkVideo(<<"v1">>, <<60>>, <<100>>, <<Str_kimchi>>, <<Str_d>>,
                << <<Str_Cooking>> >>, <<Str_baek>>)
\* another video that passes the five rules
VidC == MkVideo(<<"v2">>, <<600>>, <<50000>>, <<Str_jjigae>>, <<>>,
                << <<Str_MUSIC, Str_FoodDrink>> >>, <<Str_PaikKo>>)
\* an entry without an id
VidN == MkVideo(<<>>, <<600>>, <<50000>>, <<Str_jjigae>>, <<>>,
                << <<Str_Cooking>> >>, <<Str_baek>>)
Catalog == {VidA, VidB, VidC, VidN}

MaxVideos == 2

RecipeDbInputs ==
    {[ok |-> TRUE, rows |-> {}], [ok |-> TRUE, rows |-> {"v1"}],
     [ok |-> FALSE, rows |-> {"v1"}]}
DishDbInputs == {[ok |-> TRUE, rows |-> <<>>], [ok |-> TRUE, rows |-> <<Str_hansik>>]}

Min(a, b) == IF a < b THEN a ELSE b

\* what extract_info does for a query: it returns at most max_videos entries,
\* or it raises
Responses(n) ==
    {[ok |-> FALSE, entries |-> <<>>]}
        \cup {[ok |-> TRUE, entries |-> e] : e \in SeqsUpTo(Catalog, Min(n, max_videos))}

\* the functions from the queries to responses of at most n entries together
RECURSIVE Platforms(_, _)
Platforms(queries, n) ==
    IF queries = {} THEN {<<>>}
    ELSE LET q == CHOOSE x \in queries : TRUE
         IN  UNION {{(q :> r) @@ rest : rest \in Platforms(queries \ {q},
                                                           n - Len(r.entries))} :
                    r \in Responses(n)}

Init ==
    /\ ValidIdle
    /\ QueryIdle
    /\ dish_db \in DishDbInputs
    /\ youtube \in Platforms(get_search_queries(dish_db), MaxVideos)
    /\ recipes_db \in RecipeDbInputs
    /\ pc = "start"
    /\ seed_ids = {}
    /\ crawled_ids = {}
    /\ search_queries = {}
    /\ visited = {}
    /\ fetched = <<>>
    /\ videos = <<>>
    /\ all_videos_to_process = <<>>
    /\ filter_pos = 0
    /\ filtered_videos = <<>>
    /\ out_file = NoFile
    /\ emit_attempts = 0
    /\ run = 1
    /\ first_run = NoRun

inputVars == <<validVars, queryVars, recipes_db, dish_db, youtube, run, first_run>>

\* lines 121-130
Seed ==
    /\ pc = "start"
    /\ seed_ids' = get_crawled_video_ids(recipes_db)
    /\ crawled_ids' = get_crawled_video_ids(recipes_db)
    /\ search_queries' = get_search_queries(dish_db)
    /\ pc' = "collect"
    /\ UNCHANGED <<inputVars, visited, fetched, videos, all_videos_to_process,
                   filter_pos, filtered_videos, out_file, emit_attempts>>

\* lines 133-135: the inner loop has ended (or not begun) and the outer loop
\* takes its next query, in any order
Fetch ==
    /\ pc = "collect"
    /\ videos = <<>>
    /\ ~CollectionDone(search_queries, visited)
    /\ \E query \in search_queries \ visited :
          LET result == get_video_info(youtube[query])
          IN  /\ visited' = visited \cup {query}
              /\ fetched' = fetched \o youtube[query].entries
              /\ videos' = result.value
              /\ pc' = IF result.raised THEN "aborted" ELSE "collect"
    /\ UNCHANGED <<inputVars, seed_ids, crawled_ids, search_queries,
                   all_videos_to_process, filter_pos, filtered_videos, out_file,
                   emit_attempts>>

\* lines 137-142: one video of the inner loop
Collect ==
    /\ pc = "collect"
    /\ videos # <<>>
    /\ LET after == AfterCandidate(Head(videos), crawled_ids, all_videos_to_process)
       IN  /\ crawled_ids' = after.ids
           /\ all_videos_to_process' = after.collected
    /\ videos' = Tail(videos)
    /\ UNCHANGED <<inputVars, pc, seed_ids, search_queries, visited, fetched,
                   filter_pos, filtered_videos, out_file, emit_attempts>>

\* line 133: the outer loop ends
EndCollection ==
    /\ pc = "collect"
    /\ videos = <<>>
    /\ CollectionDone(search_queries, visited)
    /\ pc' = "filter"
    /\ UNCHANGED <<inputVars, seed_ids, crawled_ids, search_queries, visited,
                   fetched, videos, all_videos_to_process, filter_pos,
                   filtered_videos, out_file, emit_attempts>>

\* line 145: the list comprehension examines its next element
FilterStep ==
    /\ pc = "filter"
    /\ filter_pos < Len(all_videos_to_process)
    /\ filtered_videos' = AfterFilter(all_videos_to_process[filter_pos + 1],
                                      filtered_videos)
    /\ filter_pos' = filter_pos + 1
    /\ UNCHANGED <<inputVars, pc, seed_ids, crawled_ids, search_queries, visited,
                   fetched, videos, all_videos_to_process, out_file, emit_attempts>>

\* line 145: the list comprehension ends
EndFilter ==
    /\ pc = "filter"
    /\ filter_pos = Len(all_videos_to_process)
    /\ pc' = "open"
    /\ UNCHANGED <<inputVars, seed_ids, crawled_ids, search_queries, visited,
                   fetched, videos, all_videos_to_process, filter_pos,
                   filtered_videos, out_file, emit_attempts>>

\* line 148: open(output_path, 'w') creates or truncates the file
EmitOpen ==
    /\ pc = "open"
    /\ out_file' = [exists |-> TRUE, content |-> <<>>]
    /\ emit_attempts' = emit_attempts + 1
    /\ pc' = "dump"
    /\ UNCHANGED <<inputVars, seed_ids, crawled_ids, search_queries, visited,
                   fetched, videos, all_videos_to_process, filter_pos,
                   filtered_videos>>

\* line 148: open raises (no permission, no directory); nothing catches it
EmitOpenFails ==
    /\ pc = "open"
    /\ emit_attempts' = emit_attempts + 1
    /\ pc' = "failed"
    /\ UNCHANGED <<inputVars, seed_ids, crawled_ids, search_queries, visited,
                   fetched, videos, all_videos_to_process, filter_pos,
                   filtered_videos, out_file>>

\* line 149: json.dump writes its next chunk
EmitWrite ==
    /\ pc = "dump"
    /\ Len(out_file.content) < Len(Document(filtered_videos))
    /\ out_file' = [out_file EXCEPT !.content =
                       Append(@, Document(filtered_videos)[Len(@) + 1])]
    /\ UNCHANGED <<inputVars, pc, seed_ids, crawled_ids, search_queries, visited,
                   fetched, videos, all_videos_to_process, filter_pos,
                   filtered_videos, emit_attempts>>

\* line 149: json.dump raises at its next chunk (a value it cannot encode, a
\* write error); the with statement closes the file and nothing catches it
EmitWriteFails ==
    /\ pc = "dump"
    /\ Len(out_file.content) < Len(Document(filtered_videos))
    /\ pc' = "failed"
    /\ UNCHANGED <<inputVars, seed_ids, crawled_ids, search_queries, visited,
                   fetched, videos, all_videos_to_process, filter_pos,
                   filtered_videos, out_file, emit_attempts>>

\* lines 149-152: json.dump returns, the file is closed, the script ends
EmitClose ==
    /\ pc = "dump"
    /\ out_file.content = Document(filtered_videos)
    /\ pc' = "done"
    /\ UNCHANGED <<inputVars, seed_ids, crawled_ids, search_queries, visited,
                   fetched, videos, all_videos_to_process, filter_pos,
                   filtered_videos, out_file, emit_attempts>>

Next ==
    \/ Seed
    \/ Fetch
    \/ Collect
    \/ EndCollection
    \/ FilterStep
    \/ EndFilter
    \/ EmitOpen
    \/ EmitOpenFails
    \/ EmitWrite
    \/ EmitWriteFails
    \/ EmitClose

Spec == Init /\ [][Next]_vars

(* Two invocations of the script, one after the other.  The platform and    *)
(* the vocabulary are the same in both; between them other programs may     *)
(* have inserted recipes, and the store may have become (un)available.      *)

\* The runs are over a vocabulary store without dish types: the two fixed
\* queries are the ones searched.
InitTwoRuns == Init /\ dish_db.rows = <<>>

Rerun ==
    /\ pc \in {"done", "failed"}
    /\ run = 1
    /\ run' = 2
    /\ first_run' = [db |-> recipes_db, seen |-> crawled_ids,
                     batch |-> filtered_videos, file |-> out_file]
    /\ \E ok \in BOOLEAN, inserted \in SUBSET VideoIds :
          recipes_db' = [ok |-> ok, rows |-> recipes_db.rows \cup inserted]
    /\ pc' = "start"
    /\ seed_ids' = {}
    /\ crawled_ids' = {}
    /\ search_queries' = {}
    /\ visited' = {}
    /\ fetched' = <<>>
    /\ videos' = <<>>
    /\ all_videos_to_process' = <<>>
    /\ filter_pos' = 0
    /\ filtered_videos' = <<>>
    /\ emit_attempts' = 0
    /\ UNCHANGED <<validVars, queryVars, dish_db, youtube, out_file>>

NextTwoRuns == Next \/ Rerun

SpecTwoRuns == InitTwoRuns /\ [][NextTwoRuns]_vars

-----------------------------------------------------------------------------
(* Properties *)

\* the elements of log at the indices in keep, from index i on, in order
RECURSIVE PickFrom(_, _, _)
PickFrom(log, keep, i) ==
    IF i > Len(log) THEN <<>>
    ELSE (IF i \in keep THEN <<log[i]>> ELSE <<>>) \o PickFrom(log, keep, i + 1)

\* log[i] carries an identifier, and no earlier entry of log carries it
FirstFetched(log, i) ==
    /\ VideoId(log[i]) # ""
    /\ \A j \in 1..(i - 1) : VideoId(log[j]) # VideoId(log[i])

\* the first entry fetched for each identifier outside seed
ExpectedCollected(seed, log) ==
    PickFrom(log, {i \in 1..Len(log) : FirstFetched(log, i) /\ VideoId(log[i]) \notin seed}, 1)

Collected == pc \in {"filter", "open", "dump", "done", "failed"}
Filtered == pc \in {"open", "dump", "done", "failed"}

\* a step of the inner loop on the candidate Head(videos)
CandidateStep == pc = "collect" /\ videos # <<>> /\ videos' = Tail(videos)

\* C1: at every moment, and so in the final batch, no identifier occurs twice
\* in filtered_videos and none of its identifiers was in the seed set
C1_BatchHasNoDuplicateAndNoSeededId ==
    /\ \A i, j \in 1..Len(filtered_videos) :
          i # j => VideoId(filtered_videos[i]) # VideoId(filtered_videos[j])
    /\ \A i \in 1..Len(filtered_videos) : VideoId(filtered_videos[i]) \notin seed_ids

\* a finished run with "v1" seeded in which two queries returned the video "v2"
C1_Witness ==
    /\ pc = "done"
    /\ seed_ids = {"v1"}
    /\ \E q1, q2 \in DOMAIN youtube :
          q1 # q2 /\ youtube[q1].entries = <<VidC>> /\ youtube[q2].entries = <<VidC>>
    /\ filtered_videos = <<VidC>>

\* the five rules as the specification states them
Rule1_Duration(v) == "duration" \in DOMAIN v /\ v["duration"] >= 60
Rule2_Popularity(v) == "view_count" \in DOMAIN v /\ v["view_count"] >= 5000
Rule3_NoBlacklistedWord(v) ==
    LET t == (IF "title" \in DOMAIN v THEN v["title"] ELSE <<>>) \o <<32>>
                \o (IF "description" \in DOMAIN v THEN v["description"] ELSE <<>>)
    IN  \A kw \in {Str_ad, Str_sponsored} :
           \A i \in 1..Len(t) : \A j \in i..Len(t) : SubSeq(t, i, j) # kw
Rule4_Category(v) ==
    /\ "categories" \in DOMAIN v
    /\ \E c \in Range(v["categories"]) : \E a \in {Str_cooking, Str_howto, Str_food} :
          /\ Len(c) = Len(a)
          /\ \A i \in 1..Len(c) :
                c[i] = a[i] \/ (c[i] \in 65..90 /\ c[i] + 32 = a[i])
Rule5_Locale(v) ==
    /\ "channel" \in DOMAIN v
    /\ \E ch \in Range(v["channel"]) : ch \in 44032..55203

\* C2: is_valid_video returns true exactly when the five rules hold; a missing
\* duration or view count, 59 seconds and 4999 views give false
C2_ValidIffAllFiveRules ==
    verdict # <<>> =>
        /\ verdict[1] = (/\ Rule1_Duration(video)
                         /\ Rule2_Popularity(video)
                         /\ Rule3_NoBlacklistedWord(video)
                         /\ Rule4_Category(video)
                         /\ Rule5_Locale(video))
        /\ ("duration" \notin DOMAIN video \/ "view_count" \notin DOMAIN video
                => verdict[1] = FALSE)
        /\ ("duration" \in DOMAIN video /\ video["duration"] = 59
                => verdict[1] = FALSE)
        /\ ("view_count" \in DOMAIN video /\ video["view_count"] = 4999
                => verdict[1] = FALSE)

\* a record of 60 seconds and 5000 views was accepted
C2_Witness ==
    /\ verdict = <<TRUE>>
    /\ video["duration"] = 60
    /\ video["view_count"] = 5000

\* C3, as stated: the fallback's derived queries are in the result when the
\* vocabulary source fails and when it returns no term
C3_FallbackOnFailureOrEmpty ==
    queries_out # <<>> /\ (~vocab.ok \/ vocab.rows = <<>>) =>
        \A t \in {Str_hansik, Str_jungsik, Str_yangsik} :
            {t \o Str_recipe, t \o Str_making} \subseteq queries_out[1]

\* C3, amended: the fallback is used when the source fails, whatever was read
\* before the failure; a source that returns no term gives the two fixed
\* queries alone
C3_FallbackOnFailureOnly ==
    /\ queries_out # <<>> /\ ~vocab.ok =>
          queries_out[1] = {t \o x : t \in {Str_hansik, Str_jungsik, Str_yangsik},
                                     x \in {Str_recipe, Str_making}}
                              \cup {Str_simple, Str_single}
    /\ queries_out # <<>> /\ vocab.ok /\ vocab.rows = <<>> =>
          queries_out[1] = {Str_simple, Str_single}

\* the call returned for a source that returned no term
C3_Witness == queries_out # <<>> /\ vocab.ok /\ vocab.rows = <<>>

\* C8: the result is the two derived queries of every term used and the two
\* fixed queries, and nothing else
C8_QueriesAreDerivedPlusFixed ==
    queries_out # <<>> =>
        LET used == IF vocab.ok THEN Range(vocab.rows)
                    ELSE {Str_hansik, Str_jungsik, Str_yangsik}
        IN  /\ queries_out[1] = {t \o Str_recipe : t \in used}
                                    \cup {t \o Str_making : t \in used}
                                    \cup {Str_simple, Str_single}
            /\ Cardinality(queries_out[1]) = 2 * Cardinality(used) + 2

\* the call returned for a vocabulary that repeats a term
C8_Witness ==
    /\ queries_out # <<>>
    /\ vocab.ok
    /\ vocab.rows = <<Str_bunsik, Str_hansik, Str_bunsik>>
    /\ Cardinality(queries_out[1]) = 6

\* the batch a run over the entries of log gives, none of them lost: the valid
\* ones among the first fetched for each identifier outside seed
ExpectedBatch(seed, log) ==
    PickFrom(log, {i \in 1..Len(log) : /\ FirstFetched(log, i)
                                       /\ VideoId(log[i]) \notin seed
                                       /\ is_valid_video(log[i])}, 1)

\* the platform with every failing query answered by the empty list instead
FailuresAsEmpty(platform) ==
    [q \in DOMAIN platform |->
        IF platform[q].ok THEN platform[q] ELSE [ok |-> TRUE, entries |-> <<>>]]

\* C4: a failing query does not end the run: every query is iterated whatever
\* the others did, the filter and the output are reached, and the batch is the
\* one of the entries that the platform with the failures answered by the
\* empty list returns (fetched is the log of both)
C4_FetchFailureIsolated ==
    /\ pc # "aborted"
    /\ pc = "collect" /\ videos # <<>> =>
          \E q \in visited : videos \in {SubSeq(FailuresAsEmpty(youtube)[q].entries, k,
                                                Len(youtube[q].entries)) :
                                         k \in 1..(Len(youtube[q].entries) + 1)}
    /\ Collected => visited = DOMAIN youtube
    /\ Filtered => filtered_videos = ExpectedBatch(seed_ids, fetched)

\* a finished run in which one query failed and another returned two valid
\* new records, which are the batch
C4_Witness ==
    /\ pc = "done"
    /\ \E qa, qb \in DOMAIN youtube :
          /\ ~youtube[qa].ok
          /\ youtube[qb].entries = <<VidA, VidC>>
    /\ seed_ids = {}
    /\ filtered_videos = <<VidA, VidC>>

\* C5, as stated: a second run over an unchanged history store and the same
\* responses ends with an empty batch
C5_SecondRunEmpty ==
    run = 2 /\ Filtered /\ recipes_db = first_run.db => filtered_videos = <<>>

\* C5, amended: a second run over the same responses ends with an empty batch
\* when its seed set holds every identifier the first run had seen at its end
C5_SecondRunEmptyWhenSeeded ==
    run = 2 /\ Filtered /\ first_run.seen \subseteq seed_ids => filtered_videos = <<>>

\* a second run, seeded with what the first had seen, ended with an empty
\* batch after the first had accepted a record
C5_Witness ==
    /\ run = 2
    /\ pc = "done"
    /\ first_run.batch # <<>>
    /\ first_run.seen \subseteq seed_ids
    /\ fetched # <<>>
    /\ filtered_videos = <<>>

\* C6: a run that failed left the output as it was before the run, or holding
\* the complete document
C6_OutputWholeOrUntouched ==
    pc = "failed" =>
        \/ out_file = first_run.file
        \/ out_file.exists /\ out_file.content = Document(filtered_videos)

Phase ==
    CASE pc = "start" -> 1
      [] pc = "collect" -> 2
      [] pc = "filter" -> 3
      [] pc \in {"open", "dump"} -> 4
      [] pc \in {"done", "failed"} -> 5
      [] OTHER -> 0

\* C7: the phases Seed, Collection, Filter, Emit follow each other, none
\* skipped or entered again; the validator runs once every query is fetched,
\* the output is opened once the filter is complete and once only, and after
\* that nothing is fetched and neither the seen set nor the batch changes
C7_PhasesInOrder ==
    /\ [](/\ Phase \in 1..5
          /\ Phase >= 3 => visited = search_queries /\ videos = <<>>
          /\ Phase <= 2 => filter_pos = 0 /\ filtered_videos = <<>>
          /\ Phase >= 4 => filter_pos = Len(all_videos_to_process)
          /\ emit_attempts = (IF pc \in {"dump", "done", "failed"} THEN 1 ELSE 0))
    /\ [][/\ Phase' \in {Phase, Phase + 1}
          /\ Phase >= 3 => UNCHANGED <<visited, fetched, crawled_ids,
                                        all_videos_to_process>>
          /\ Phase >= 4 => UNCHANGED filtered_videos
          /\ Phase = 5 => UNCHANGED <<pc, out_file, emit_attempts>>]_vars

\* a finished run that iterated four queries and wrote a batch of one record
C7_Witness ==
    /\ pc = "done"
    /\ Cardinality(visited) = 4
    /\ Len(filtered_videos) = 1
    /\ emit_attempts = 1

\* C9, as stated: a candidate whose identifier is in the seen set changes
\* nothing, and any other candidate is marked seen at once and collected,
\* valid or not.  The seen set only grows and contains the seed, and after the
\* collection the working list is the first entry fetched for each identifier
\* outside the seed.
C9_EveryUnseenCandidateCollected ==
    /\ [][CandidateStep =>
            IF VideoId(Head(videos)) \in crawled_ids
            THEN UNCHANGED <<crawled_ids, all_videos_to_process>>
            ELSE /\ all_videos_to_process' = Append(all_videos_to_process, Head(videos))
                 /\ crawled_ids' = crawled_ids \cup {VideoId(Head(videos))}]_vars
    /\ [][pc # "start" => crawled_ids \subseteq crawled_ids']_vars
    /\ [](pc # "start" => seed_ids \subseteq crawled_ids)
    /\ [](Collected => all_videos_to_process = ExpectedCollected(seed_ids, fetched))

\* C9, amended: a candidate whose identifier is in the seen set, and one that
\* has no identifier or an empty one, changes nothing; any other candidate is
\* marked seen at once and collected, valid or not.  The seen set only grows
\* and contains the seed, and after the collection the working list is the
\* first entry fetched for each identifier outside the seed.
C9_UnseenIdentifiedCandidateCollected ==
    /\ [][CandidateStep =>
            IF VideoId(Head(videos)) \in crawled_ids \/ VideoId(Head(videos)) = ""
            THEN UNCHANGED <<crawled_ids, all_videos_to_process>>
            ELSE /\ all_videos_to_process' = Append(all_videos_to_process, Head(videos))
                 /\ crawled_ids' = crawled_ids \cup {VideoId(Head(videos))}]_vars
    /\ [][pc # "start" => crawled_ids \subseteq crawled_ids']_vars
    /\ [](pc # "start" => seed_ids \subseteq crawled_ids)
    /\ [](Collected => all_videos_to_process = ExpectedCollected(seed_ids, fetched))

\* the collection ended with the invalid record collected and a later
\* candidate skipped
C9_Witness ==
    /\ pc = "filter"
    /\ Len(fetched) = 2
    /\ fetched[1] = VidB
    /\ all_videos_to_process = <<VidB>>
    /\ crawled_ids = seed_ids \cup {"v1"}

\* C10: an identifier outside the seed is in the batch exactly when the first
\* record fetched with it is valid, and the batch keeps the collection order
C10_FirstFetchedDecides ==
    Filtered =>
        /\ \A id \in VideoIds \ seed_ids :
              (\E k \in 1..Len(filtered_videos) : VideoId(filtered_videos[k]) = id)
                <=> (\E i \in 1..Len(fetched) : /\ VideoId(fetched[i]) = id
                                                /\ FirstFetched(fetched, i)
                                                /\ is_valid_video(fetched[i]))
        /\ \A k, l \in 1..Len(filtered_videos) :
              k < l => \E i, j \in 1..Len(all_videos_to_process) :
                          /\ i < j
                          /\ all_videos_to_process[i] = filtered_videos[k]
                          /\ all_videos_to_process[j] = filtered_videos[l]

\* a finished run that fetched the invalid record of "v1" before the valid one
\* and accepted neither
C10_Witness ==
    /\ pc = "done"
    /\ seed_ids = {}
    /\ fetched = <<VidB, VidA>>
    /\ filtered_videos = <<>>

====
